---- MODULE Spec2Model ----
(***************************************************************************)
(* Model of kagent-adk's bounded fan-out coordinator (KAgentParallelAgent)  *)
(* and of the workflow state store (WorkflowState, WorkflowStateManager).   *)
(*                                                                         *)
(* Seven specifications share the definitions:                             *)
(*   Spec       one run of KAgentParallelAgent.run_async over NumAgents    *)
(*              sub-agents, in outputKey mode or in shared-session mode;    *)
(*   SpecFair   such a run that nothing cancels, on a fair event loop;     *)
(*   SpecIsolation  such a run with sub-agents whose bodies write into the *)
(*              state of their session;                                    *)
(*   SpecStore  NumCallers concurrent update_output_concurrent calls on    *)
(*              one WorkflowStateManager;                                   *)
(*   SpecState  SpecStore with the other operations of the store and with  *)
(*              mark_completed and mark_failed on the workflow;             *)
(*   SpecInit   the constructor of KAgentParallelAgent on max_workers      *)
(*              arguments in and out of range;                              *)
(*   SpecInjection  one call of inject_state_keys or validate_output_key   *)
(*              of workflow/injection.py.                                  *)
(*                                                                         *)
(* Strings are sequences of Unicode code points.  A task step is the code  *)
(* between two suspension points (the admission semaphore, the sub-agent's *)
(* event stream, the store's lock); taking the lock is a step, and the     *)
(* section it guards, which holds no await, is the next step of its task.  *)
(***************************************************************************)
EXTENDS Integers, Sequences, FiniteSets, TLC

\* ------------------------------------------------------------- bounds
NumAgents == 3
MaxEvents == 2
NumCallers == 2
MaxValueLen == 1
\* WorkflowState.set_output's max_size_bytes, scaled down from 10 MiB
MaxSizeBytes == 2
\* most records a caller of the store appends to one workflow
MaxRecords == 2
\* the max_workers arguments tried go up to MaxWorkersLimit + InputMargin
InputMargin == 2

\* ------------------------------------------------------------- values
\* a key or a text is a sequence of code points; None and "" are both falsy
NoKey == <<>>
NoValue == "None"
\* completion_order = None
NoOrder == 0
\* "if max_workers > 50"
MaxWorkersLimit == 50
\* asyncio.Lock() that no task holds
NoHolder == 0 - 1
NewLine == 10
SmallChar == 120
WideChar == 19990

Agents == 0 .. (NumAgents - 1)
Callers == 1 .. NumCallers

RECURSIVE SeqsUpTo(_, _)
SeqsUpTo(S, n) ==
    IF n = 0 THEN {<<>>}
    ELSE LET shorter == SeqsUpTo(S, n - 1)
         IN  shorter \cup {Append(s, x) : s \in {t \in shorter : Len(t) = n - 1}, x \in S}

\* len(value.encode("utf-8")): bytes of one code point, then of a string
Utf8CharLen(c) ==
    IF c < 128 THEN 1 ELSE IF c < 2048 THEN 2 ELSE IF c < 65536 THEN 3 ELSE 4

RECURSIVE Utf8Len(_)
Utf8Len(s) == IF s = <<>> THEN 0 ELSE Utf8CharLen(Head(s)) + Utf8Len(Tail(s))

\* "\n".join(parts)
RECURSIVE Join(_)
Join(parts) ==
    IF parts = <<>> THEN <<>>
    ELSE IF Len(parts) = 1 THEN parts[1]
    ELSE parts[1] \o <<NewLine>> \o Join(Tail(parts))

\* dict.update(other): the entries of other win
DictUpdate(d, other) == other @@ d

EmptyDict == <<>>

\* ------------------------------------------------------------- the store
NewWorkflowState ==
    [state_data |-> EmptyDict,
     sub_agent_executions |-> <<>>,
     status |-> "running",
     error_message |-> NoValue]

\* WorkflowState.set_output: the new state, or the ValueError
SetOutputCheckAfterWrite(ws, key, value, max_size_bytes) ==
    [ok |-> Utf8Len(value) <= max_size_bytes,
     ws |-> [ws EXCEPT !.state_data = (key :> value) @@ ws.state_data]]

SetOutputReplaceAll(ws, key, value, max_size_bytes) ==
    IF Utf8Len(value) > max_size_bytes
    THEN [ok |-> FALSE, ws |-> ws]
    ELSE [ok |-> TRUE, ws |-> [ws EXCEPT !.state_data = (key :> value)]]

SetOutputKeepExisting(ws, key, value, max_size_bytes) ==
    IF Utf8Len(value) > max_size_bytes
    THEN [ok |-> FALSE, ws |-> ws]
    ELSE [ok |-> TRUE, ws |-> [ws EXCEPT !.state_data = ws.state_data @@ (key :> value)]]

SetOutput(ws, key, value, max_size_bytes) ==
    IF Utf8Len(value) > max_size_bytes
    THEN [ok |-> FALSE, ws |-> ws]
    ELSE [ok |-> TRUE, ws |-> [ws EXCEPT !.state_data = (key :> value) @@ ws.state_data]]

\* WorkflowState.add_execution: sub_agent_executions.append(execution)
AddExecutionTwice(ws, execution) ==
    [ws EXCEPT !.sub_agent_executions =
                   Append(Append(ws.sub_agent_executions, execution), execution)]

AddExecution(ws, execution) ==
    [ws EXCEPT !.sub_agent_executions = Append(ws.sub_agent_executions, execution)]

MarkCompleted(ws) == [ws EXCEPT !.status = "completed"]

MarkFailed(ws, error_message) ==
    [ws EXCEPT !.status = "failed", !.error_message = error_message]

CreateWorkflow(cache, id) == (id :> NewWorkflowState) @@ cache

\* WorkflowStateManager.create_workflow as a call: it returns the new state
CreateWorkflowOp(cache, id) == [result |-> "ok", cache |-> CreateWorkflow(cache, id)]

\* WorkflowStateManager.update_output_concurrent, the section under the lock:
\* [result, cache], result one of "ok", "KeyError", "ValueError"
UpdateOutputConcurrentCreating(cache, id, key, value) ==
    LET known == IF id \in DOMAIN cache THEN cache ELSE CreateWorkflow(cache, id)
        r == SetOutput(known[id], key, value, MaxSizeBytes)
    IN  [result |-> IF r.ok THEN "ok" ELSE "ValueError",
         cache |-> [known EXCEPT ![id] = r.ws]]

UpdateOutputConcurrent(cache, id, key, value) ==
    IF id \notin DOMAIN cache
    THEN [result |-> "KeyError", cache |-> cache]
    ELSE LET r == SetOutput(cache[id], key, value, MaxSizeBytes)
         IN  IF r.ok
             THEN [result |-> "ok", cache |-> [cache EXCEPT ![id] = r.ws]]
             ELSE [result |-> "ValueError", cache |-> [cache EXCEPT ![id] = r.ws]]

\* WorkflowStateManager.update_output: no lock; ValueError when the workflow
\* is not found, and from set_output
UpdateOutput(cache, id, key, value) ==
    IF id \notin DOMAIN cache
    THEN [result |-> "ValueError", cache |-> cache]
    ELSE LET r == SetOutput(cache[id], key, value, MaxSizeBytes)
         IN  [result |-> IF r.ok THEN "ok" ELSE "ValueError",
              cache |-> [cache EXCEPT ![id] = r.ws]]

\* WorkflowStateManager.get_outputs: state_data.copy(), or the ValueError
GetOutputs(cache, id) ==
    IF id \notin DOMAIN cache
    THEN [result |-> "ValueError", cache |-> cache, outputs |-> EmptyDict]
    ELSE [result |-> "ok", cache |-> cache, outputs |-> cache[id].state_data]

\* WorkflowStateManager.add_execution_concurrent, the section under the lock
AddExecutionConcurrent(cache, id, execution) ==
    IF id \notin DOMAIN cache
    THEN [result |-> "KeyError", cache |-> cache]
    ELSE [result |-> "ok", cache |-> [cache EXCEPT ![id] = AddExecution(@, execution)]]

\* "async with self._lock", __aexit__: the lock after the section has ended
\* with result ("ok", or the exception that leaves the section)
ReleaseOnSuccess(holder, result) == IF result = "ok" THEN NoHolder ELSE holder

ReleaseOnExit(holder, result) == NoHolder

\* ------------------------------------------- workflow/injection.py
\* longest template, and longest key besides the runs of one letter
MaxTemplateLen == 6
MaxShortKeyLen == 2

LeftBrace == 123
RightBrace == 125
Underscore == 95
LetterA == 97
DigitOne == 49
Hyphen == 45
\* validate_output_key's limit on len(key)
MaxKeyLength == 127

\* the classes [a-zA-Z_] and [a-zA-Z0-9_] of both patterns
IsLetterOrUnderscore(c) == c \in 65..90 \/ c \in 97..122 \/ c = Underscore
IsWordChar(c) == IsLetterOrUnderscore(c) \/ c \in 48..57

RECURSIVE IdentifierEnd(_, _)
\* [a-zA-Z0-9_]* from index p of s: the last index of the longest run
\* (p - 1 when the run is empty)
IdentifierEnd(s, p) ==
    IF p <= Len(s) /\ IsWordChar(s[p]) THEN IdentifierEnd(s, p + 1) ELSE p - 1

\* the pattern \{([a-zA-Z_][a-zA-Z0-9_]*)\} matches s at index p
PlaceholderAt(s, p) ==
    /\ p + 2 <= Len(s)
    /\ s[p] = LeftBrace
    /\ IsLetterOrUnderscore(s[p + 1])
    /\ LET e == IdentifierEnd(s, p + 1)
       IN  e < Len(s) /\ s[e + 1] = RightBrace

\* what a call of a function of injection.py gives: raised is the exception
\* ("None" when it returns), text the returned string
Returns(text) ==
    [raised |-> "None", text |-> text, message |-> "",
     key |-> <<>>, available_keys |-> {}]
Raises(message, key, available_keys) ==
    [raised |-> "ValueError", text |-> <<>>, message |-> message,
     key |-> key, available_keys |-> available_keys]
Pending ==
    [raised |-> "pending", text |-> <<>>, message |-> "",
     key |-> <<>>, available_keys |-> {}]

\* a replace_key that leaves the placeholder of a missing key in place
ReplaceKeyLenient(key, st) ==
    IF key \notin DOMAIN st
    THEN Returns(<<LeftBrace>> \o key \o <<RightBrace>>)
    ELSE Returns(st[key])

\* replace_key(match), key = match.group(1); list(state.keys()) is kept as
\* the set of the keys
ReplaceKey(key, st) ==
    IF key \notin DOMAIN st
    THEN Raises("State key not found", key, DOMAIN st)
    ELSE Returns(st[key])

RECURSIVE ReSub(_, _, _)
\* re.sub(pattern, replace_key, template) from index p of the template on:
\* the leftmost match is replaced, the scan goes on after the match, and the
\* replacement is copied to the result without being scanned
ReSub(tpl, st, p) ==
    IF p > Len(tpl) THEN Returns(<<>>)
    ELSE IF PlaceholderAt(tpl, p)
         THEN LET e == IdentifierEnd(tpl, p + 1)
                  r == ReplaceKey(SubSeq(tpl, p + 1, e), st)
                  rest == ReSub(tpl, st, e + 2)
              IN  IF r.raised # "None" THEN r
                  ELSE IF rest.raised # "None" THEN rest
                  ELSE Returns(r.text \o rest.text)
         ELSE LET rest == ReSub(tpl, st, p + 1)
              IN  IF rest.raised # "None" THEN rest
                  ELSE Returns(<<tpl[p]>> \o rest.text)

\* an inject_state_keys that substitutes again in its own result
InjectStateKeysRecursive(tpl, st) ==
    LET once == ReSub(tpl, st, 1)
    IN  IF once.raised # "None" THEN once ELSE ReSub(once.text, st, 1)

InjectStateKeys(tpl, st) == ReSub(tpl, st, 1)

\* re.match(r"^[a-zA-Z_][a-zA-Z0-9_]*$", key); $ matches at the end of the
\* key and before a newline that ends it
MatchesKeyPattern(key) ==
    /\ Len(key) >= 1
    /\ IsLetterOrUnderscore(key[1])
    /\ LET e == IdentifierEnd(key, 2)
       IN  \/ e = Len(key)
           \/ e = Len(key) - 1 /\ key[Len(key)] = NewLine

ValidateOutputKey(key) ==
    IF key = <<>> THEN Raises("OutputKey cannot be empty", key, {})
    ELSE IF Len(key) > MaxKeyLength
    THEN Raises("exceeds MaxKeyLength characters", key, {})
    ELSE IF ~MatchesKeyPattern(key)
    THEN Raises("must start with letter/underscore", key, {})
    ELSE Returns(<<>>)

\* ------------------------------------------------------------- state
VARIABLES
    max_workers,      \* KAgentParallelAgent.max_workers
    output_key,       \* sub-agent index -> its output_key, or NoKey
    sem_value,        \* self.semaphore: free slots
    sem_waiters,      \* self.semaphore: tasks waiting, oldest first
    phase,            \* position of run_async
    cache,            \* WorkflowStateManager._cache: id -> WorkflowState
    parent_state,     \* parent_context.session.state
    pc,               \* sub-agent index -> position of its task
    events,           \* sub-agent index -> events (list local to the task)
    collected_output, \* sub-agent index -> collected_output (local list)
    sub_state,        \* sub-agent index -> merged_state of its session
    error,            \* sub-agent index -> str(e) of the exception it raised
    completed_count,  \* run_async's completed_count
    yielded,          \* events run_async has yielded to its caller
    call,             \* caller -> arguments of its update_output_concurrent
    pcS,              \* caller -> position of its call
    lock,             \* WorkflowStateManager._lock: its holder, or NoHolder
    fn,               \* function of workflow/injection.py being called
    template,         \* inject_state_keys: its template argument
    state,            \* inject_state_keys: its state argument
    key_name,         \* validate_output_key: its key argument
    result            \* what the call returned or raised

vars == <<max_workers, output_key, sem_value, sem_waiters, phase, cache,
          parent_state, pc, events, collected_output, sub_state, error,
          completed_count, yielded, call, pcS, lock,
          fn, template, state, key_name, result>>

injectionVars == <<fn, template, state, key_name, result>>

fanoutVars == <<max_workers, output_key, sem_value, sem_waiters, phase,
                parent_state, pc, events, collected_output, sub_state, error,
                completed_count, yielded>>

\* no function of injection.py is being called
NoInjection ==
    /\ fn = "none"
    /\ template = <<>>
    /\ state = EmptyDict
    /\ key_name = <<>>
    /\ result = Pending

SessionId == "parent"

UnknownId == "unknown"

\* "k0", "k1", ...: the key of sub-agent i; sub-agent 1 may also declare "k0",
\* the key of sub-agent 0
OwnKey(i) == <<107, 48 + i>>
OutputKeyChoices(i) ==
    IF i = 1 THEN {NoKey, OwnKey(i), OwnKey(0)}
    ELSE IF i = 2 THEN {NoKey, OwnKey(i)}
    ELSE {OwnKey(i)} \cup (IF i = 0 THEN {NoKey} ELSE {})

\* the parent session holds "prev" from an earlier phase, and a "k0" and a
\* "k2" of its own
PrevKey == <<112, 114, 101, 118>>
ParentValue == <<112>>
InitialParentState ==
    (PrevKey :> ParentValue) @@ (OwnKey(0) :> ParentValue) @@ (OwnKey(2) :> ParentValue)

NoCall == [op |-> "update_output_concurrent", id |-> SessionId, key |-> NoKey,
           value |-> <<>>]

\* an event of a sub-agent: its text ("" when it carries no text part)
EventTexts == {<<>>, <<SmallChar>>}
\* the streams a sub-agent may produce: the texts of its events, in order
Streams == SeqsUpTo(EventTexts, MaxEvents)
BodyError == "boom"
SizeLimitError == "exceeds maximum size"
NotFoundError == "not found"

SubAgentEvent(i, text) ==
    [sub_agent |-> i, text |-> text, error_code |-> NoValue, error_message |-> NoValue]

\* the event run_async yields for a sub-agent whose task raised
ErrorEvent(i, error_msg) ==
    [sub_agent |-> i, text |-> <<>>, error_code |-> "SUB_AGENT_ERROR",
     error_message |-> error_msg]

\* ------------------------------------------------------------- coordinator
\* KAgentParallelAgent.__init__: asyncio.Semaphore(max_workers)
SemaphoreInitOffByOne(mw) == mw + 1

SemaphoreInit(mw) == mw

\* KAgentParallelAgent.__init__, "Validate max_workers": the argument is
\* [is_int, value]; "ok", or the exception raised
ValidateMaxWorkersStrict(mw) ==
    IF ~mw.is_int THEN "TypeError"
    ELSE IF mw.value < 1 THEN "ValueError"
    ELSE IF mw.value >= MaxWorkersLimit THEN "ValueError"
    ELSE "ok"

ValidateMaxWorkers(mw) ==
    IF ~mw.is_int THEN "TypeError"
    ELSE IF mw.value < 1 THEN "ValueError"
    ELSE IF mw.value > MaxWorkersLimit THEN "ValueError"
    ELSE "ok"

\* any(hasattr(agent, "output_key") and agent.output_key for agent in sub_agents)
UseOutputKeyModeAll == \A i \in Agents : output_key[i] # NoKey

UseOutputKeyMode == \E i \in Agents : output_key[i] # NoKey

WorkflowStateOf == cache[SessionId]

\* validate_unique_output_keys: output_keys, the truthy keys from sub-agent idx on
RECURSIVE DeclaredKeys(_)
DeclaredKeys(idx) ==
    IF idx = NumAgents THEN <<>>
    ELSE (IF output_key[idx] # NoKey THEN <<output_key[idx]>> ELSE <<>>)
         \o DeclaredKeys(idx + 1)

\* validate_unique_output_keys: duplicates, the keys seen before in the list
Duplicates(keys) ==
    {keys[n] : n \in {m \in DOMAIN keys : \E l \in 1 .. (m - 1) : keys[l] = keys[m]}}

\* validate_unique_output_keys(sub_agents): "ok", or the ValueError it raises
ValidateUniqueOutputKeys ==
    LET keys == DeclaredKeys(0)
    IN  IF Len(keys) # Cardinality({keys[n] : n \in DOMAIN keys})
        THEN "ValueError" ELSE "ok"

Init ==
    /\ max_workers \in 1 .. NumAgents
    /\ output_key \in {f \in [Agents -> {NoKey} \cup {OwnKey(i) : i \in Agents}] :
                          \A i \in Agents : f[i] \in OutputKeyChoices(i)}
    /\ sem_value = SemaphoreInit(max_workers)
    /\ sem_waiters = <<>>
    /\ phase = "idle"
    /\ cache = EmptyDict
    /\ parent_state = InitialParentState
    /\ pc = [i \in Agents |-> "none"]
    /\ events = [i \in Agents |-> <<>>]
    /\ collected_output = [i \in Agents |-> <<>>]
    /\ sub_state = [i \in Agents |-> EmptyDict]
    /\ error = [i \in Agents |-> NoValue]
    /\ completed_count = 0
    /\ yielded = <<>>
    /\ call = [c \in Callers |-> NoCall]
    /\ pcS = [c \in Callers |-> "none"]
    /\ lock = NoHolder
    /\ NoInjection

\* run_async up to "await asyncio.gather": mode detection, create_workflow,
\* one task per sub-agent in declaration order
RunAsync ==
    /\ phase = "idle"
    /\ phase' = "gather"
    /\ cache' = IF UseOutputKeyMode THEN CreateWorkflow(cache, SessionId) ELSE cache
    /\ pc' = [i \in Agents |-> "created"]
    /\ UNCHANGED <<max_workers, output_key, sem_value, sem_waiters, parent_state,
                   events, collected_output, sub_state, error, completed_count,
                   yielded, call, pcS, lock,
                   injectionVars>>

\* a merged_state updated with the workflow state first and the parent last
MergedStateParentLast ==
    DictUpdate(DictUpdate(EmptyDict,
                          IF UseOutputKeyMode THEN WorkflowStateOf.state_data ELSE EmptyDict),
               parent_state)

\* merged_state: parent session state, then the workflow's state_data over it
MergedState == DictUpdate(DictUpdate(EmptyDict, parent_state),
                          IF UseOutputKeyMode THEN WorkflowStateOf.state_data ELSE EmptyDict)

\* what a task does once it holds a slot, up to the first event of the body
EnterRefreshingRunning(i) ==
    /\ pc' = [pc EXCEPT ![i] = "running"]
    /\ sub_state' = [j \in Agents |->
                        IF j = i \/ pc[j] = "running"
                        THEN (IF UseOutputKeyMode THEN MergedState ELSE parent_state)
                        ELSE sub_state[j]]

Enter(i) ==
    /\ pc' = [pc EXCEPT ![i] = "running"]
    /\ sub_state' = [sub_state EXCEPT ![i] = IF UseOutputKeyMode THEN MergedState
                                             ELSE parent_state]

\* asyncio.Semaphore.locked()
SemLocked == sem_value = 0 \/ sem_waiters # <<>>

\* first step of a task: "async with self.semaphore" - take a slot or wait
Arrive(i) ==
    /\ phase = "gather"
    /\ pc[i] = "created"
    /\ \A j \in Agents : j < i => pc[j] # "created"
    /\ IF ~SemLocked
       THEN /\ sem_value' = sem_value - 1
            /\ Enter(i)
            /\ UNCHANGED sem_waiters
       ELSE /\ sem_waiters' = Append(sem_waiters, i)
            /\ pc' = [pc EXCEPT ![i] = "waiting"]
            /\ UNCHANGED <<sem_value, sub_state>>
    /\ UNCHANGED <<max_workers, output_key, phase, cache, parent_state, events,
                   collected_output, error, completed_count, yielded, call, pcS, lock,
                   injectionVars>>

\* asyncio.Semaphore: the waiter that a release wakes, the oldest one
NextWaiterNewest(waiters) == waiters[Len(waiters)]

NextWaiter(waiters) == Head(waiters)

RemoveWaiter(waiters, i) == SelectSeq(waiters, LAMBDA w : w # i)

\* a waiting task is woken by a release and takes the slot
Admit(i) ==
    /\ pc[i] = "waiting"
    /\ sem_waiters # <<>> /\ NextWaiter(sem_waiters) = i
    /\ sem_value > 0
    /\ sem_value' = sem_value - 1
    /\ sem_waiters' = RemoveWaiter(sem_waiters, i)
    /\ Enter(i)
    /\ UNCHANGED <<max_workers, output_key, phase, cache, parent_state, events,
                   collected_output, error, completed_count, yielded, call, pcS, lock,
                   injectionVars>>

\* "async with self.semaphore" is left: Semaphore.release()
Release == sem_value' = sem_value + 1 /\ UNCHANGED sem_waiters

\* [SubAgentEvent(i, t) for t in texts]
RECURSIVE EventsOf(_, _)
EventsOf(i, texts) ==
    IF texts = <<>> THEN <<>>
    ELSE <<SubAgentEvent(i, Head(texts))>> \o EventsOf(i, Tail(texts))

\* a collection that keeps the empty texts too
CollectedTextsWithEmpty(key, texts) == IF key = NoKey THEN <<>> ELSE texts

\* the texts appended to collected_output: those of the parts with a
\* non-empty text, and only "if output_key"
RECURSIVE CollectedTexts(_, _)
CollectedTexts(key, texts) ==
    IF texts = <<>> \/ key = NoKey THEN <<>>
    ELSE (IF Head(texts) # <<>> THEN <<Head(texts)>> ELSE <<>>)
         \o CollectedTexts(key, Tail(texts))

\* outputKey mode: "async for event in sub_agent.run_async(sub_context)" runs to
\* the end of the stream (the loop touches the task's own lists only);
\* the output is written only "if output_key and collected_output"
Finish(i) ==
    /\ UseOutputKeyMode
    /\ pc[i] = "running"
    /\ \E texts \in Streams :
          /\ events' = [events EXCEPT ![i] = EventsOf(i, texts)]
          /\ collected_output' =
                [collected_output EXCEPT ![i] = CollectedTexts(output_key[i], texts)]
          /\ pc' = [pc EXCEPT ![i] =
                       IF output_key[i] # NoKey /\ collected_output'[i] # <<>>
                       THEN "write" ELSE "record"]
    /\ UNCHANGED <<max_workers, output_key, sem_value, sem_waiters, phase, cache,
                   parent_state, sub_state, error, completed_count, yielded,
                   call, pcS, lock, injectionVars>>

\* outputKey mode: the body raises; the handler waits for the store's lock
Raise(i) ==
    /\ UseOutputKeyMode
    /\ pc[i] = "running"
    /\ pc' = [pc EXCEPT ![i] = "fail"]
    /\ error' = [error EXCEPT ![i] = BodyError]
    /\ UNCHANGED <<max_workers, output_key, sem_value, sem_waiters, phase, cache,
                   parent_state, events, collected_output, sub_state,
                   completed_count, yielded, call, pcS, lock,
                   injectionVars>>

\* the positions at which a task is about to enter "async with ..._lock", or
\* is inside it: before the write, before the success record, before the
\* failed record
LockPointsWithBody == {"running", "write", "record", "fail"}

LockPoints == {"write", "record", "fail"}

\* "async with ..._lock", __aenter__: the task takes the free lock
AcquireLock(i) ==
    /\ pc[i] \in LockPoints
    /\ lock = NoHolder
    /\ lock' = i
    /\ UNCHANGED <<max_workers, output_key, sem_value, sem_waiters, phase, cache,
                   parent_state, pc, events, collected_output, sub_state, error,
                   completed_count, yielded, call, pcS, injectionVars>>

\* await workflow_state_manager.update_output_concurrent(id, output_key, output_value),
\* the section under the lock
\* a write whose ValueError is swallowed: the task goes on to the success record
WriteIgnoringError(i) ==
    /\ pc[i] = "write"
    /\ lock = i
    /\ LET r == UpdateOutputConcurrent(cache, SessionId, output_key[i],
                                       Join(collected_output[i]))
       IN  /\ cache' = r.cache
           /\ lock' = ReleaseOnExit(i, r.result)
           /\ pc' = [pc EXCEPT ![i] = "record"]
    /\ UNCHANGED <<max_workers, output_key, sem_value, sem_waiters, phase,
                   parent_state, events, collected_output, sub_state, error,
                   completed_count, yielded, call, pcS, injectionVars>>

Write(i) ==
    /\ pc[i] = "write"
    /\ lock = i
    /\ LET r == UpdateOutputConcurrent(cache, SessionId, output_key[i],
                                       Join(collected_output[i]))
       IN  /\ cache' = r.cache
           /\ lock' = ReleaseOnExit(i, r.result)
           /\ pc' = [pc EXCEPT ![i] = IF r.result = "ok" THEN "record" ELSE "fail"]
           /\ error' = [error EXCEPT ![i] =
                           IF r.result = "ok" THEN @
                           ELSE IF r.result = "ValueError" THEN SizeLimitError
                           ELSE NotFoundError]
    /\ UNCHANGED <<max_workers, output_key, sem_value, sem_waiters, phase,
                   parent_state, events, collected_output, sub_state,
                   completed_count, yielded, call, pcS, injectionVars>>

OutputValue(i) ==
    IF output_key[i] # NoKey /\ collected_output[i] # <<>>
    THEN Join(collected_output[i]) ELSE <<>>

\* completion_order = len(workflow_state.sub_agent_executions) + 1
CompletionOrderFromOutputs(ws) == Cardinality(DOMAIN ws.state_data) + 1

CompletionOrder(ws) == Len(ws.sub_agent_executions) + 1

SuccessRecord(i, ws) ==
    [index |-> i,
     output_key |-> output_key[i],
     status |-> "success",
     output_size_bytes |-> Utf8Len(OutputValue(i)),
     error |-> NoValue,
     completion_order |-> CompletionOrder(ws)]

FailedRecord(i) ==
    [index |-> i,
     output_key |-> output_key[i],
     status |-> "failed",
     output_size_bytes |-> 0,
     error |-> error[i],
     completion_order |-> NoOrder]

\* "async with workflow_state_manager._lock": the success record; the task
\* returns its events and gives its slot back
Record(i) ==
    /\ pc[i] = "record"
    /\ lock = i
    /\ cache' = [cache EXCEPT ![SessionId] = AddExecution(@, SuccessRecord(i, @))]
    /\ lock' = ReleaseOnExit(i, "ok")
    /\ pc' = [pc EXCEPT ![i] = "returned"]
    /\ Release
    /\ UNCHANGED <<max_workers, output_key, phase, parent_state, events,
                   collected_output, sub_state, error, completed_count, yielded,
                   call, pcS, injectionVars>>

\* the except branch: the failed record under the lock, then "raise"
RecordFailedRetry(i) ==
    /\ pc[i] = "fail"
    /\ lock = i
    /\ lock' = ReleaseOnExit(i, "ok")
    /\ pc' = [pc EXCEPT ![i] = "running"]
    /\ UNCHANGED <<max_workers, output_key, sem_value, sem_waiters, phase, cache,
                   parent_state, events, collected_output, sub_state, error,
                   completed_count, yielded, call, pcS, injectionVars>>

\* an except branch that leaves "async with self.semaphore" without giving
\* the slot back
RecordFailedKeepingSlot(i) ==
    /\ pc[i] = "fail"
    /\ lock = i
    /\ cache' = [cache EXCEPT ![SessionId] = AddExecution(@, FailedRecord(i))]
    /\ lock' = ReleaseOnExit(i, "ok")
    /\ pc' = [pc EXCEPT ![i] = "raised"]
    /\ UNCHANGED <<max_workers, output_key, sem_value, sem_waiters, phase,
                   parent_state, events, collected_output, sub_state, error,
                   completed_count, yielded, call, pcS, injectionVars>>

RecordFailed(i) ==
    /\ pc[i] = "fail"
    /\ lock = i
    /\ cache' = [cache EXCEPT ![SessionId] = AddExecution(@, FailedRecord(i))]
    /\ lock' = ReleaseOnExit(i, "ok")
    /\ pc' = [pc EXCEPT ![i] = "raised"]
    /\ Release
    /\ UNCHANGED <<max_workers, output_key, phase, parent_state, events,
                   collected_output, sub_state, error, completed_count, yielded,
                   call, pcS, injectionVars>>

\* shared-session mode (_run_sub_agent_with_semaphore): the stream runs to its
\* end, the task returns its events and gives its slot back
FinishShared(i) ==
    /\ ~UseOutputKeyMode
    /\ pc[i] = "running"
    /\ \E texts \in Streams : events' = [events EXCEPT ![i] = EventsOf(i, texts)]
    /\ pc' = [pc EXCEPT ![i] = "returned"]
    /\ Release
    /\ UNCHANGED <<max_workers, output_key, phase, cache, parent_state,
                   collected_output, sub_state, error, completed_count, yielded,
                   call, pcS, lock, injectionVars>>

\* shared-session mode: the body raises, the exception goes to gather()
RaiseShared(i) ==
    /\ ~UseOutputKeyMode
    /\ pc[i] = "running"
    /\ pc' = [pc EXCEPT ![i] = "raised"]
    /\ error' = [error EXCEPT ![i] = BodyError]
    /\ Release
    /\ UNCHANGED <<max_workers, output_key, phase, cache, parent_state, events,
                   collected_output, sub_state, completed_count, yielded, call, pcS, lock,
                   injectionVars>>

Settled(i) == pc[i] \in {"returned", "raised"}

\* a results loop that walks the results from the last one to the first
RECURSIVE ResultEventsReversed(_)
ResultEventsReversed(idx) ==
    IF idx \notin Agents THEN <<>>
    ELSE ResultEventsReversed(idx + 1)
         \o (IF pc[idx] = "raised" THEN <<ErrorEvent(idx, error[idx])>> ELSE events[idx])

\* the events run_async yields for results[idx .. ], in declaration order
RECURSIVE ResultEvents(_)
ResultEvents(idx) ==
    IF idx \notin Agents THEN <<>>
    ELSE (IF pc[idx] = "raised" THEN <<ErrorEvent(idx, error[idx])>> ELSE events[idx])
         \o ResultEvents(idx + 1)

\* "await asyncio.gather(*tasks, return_exceptions=True)" returns: every task
\* has returned or raised
GatherReadyFailFast == (\A i \in Agents : Settled(i)) \/ (\E i \in Agents : pc[i] = "raised")

GatherReadyFirstCompleted == \E i \in Agents : Settled(i)

GatherReady == \A i \in Agents : Settled(i)

\* the loop over the results: the counts, and the events yielded to the caller
ProcessResults ==
    /\ phase = "gather"
    /\ GatherReady
    /\ phase' = "settle"
    /\ completed_count' = Cardinality({i \in Agents : pc[i] = "returned"})
    /\ yielded' = ResultEvents(0)
    /\ UNCHANGED <<max_workers, output_key, sem_value, sem_waiters, cache,
                   parent_state, pc, events, collected_output, sub_state, error,
                   call, pcS, lock, injectionVars>>

AllFailedMessage == "All parallel agents failed"

\* "if completed_count > 0: mark_completed() else: mark_failed(...)"
SettleStatusAllRequired(ws, completed) ==
    IF completed = NumAgents THEN MarkCompleted(ws) ELSE MarkFailed(ws, AllFailedMessage)

SettleStatus(ws, completed) ==
    IF completed > 0 THEN MarkCompleted(ws) ELSE MarkFailed(ws, AllFailedMessage)

\* "if workflow_state.state_data: parent_context.session.state.update(state_data)"
MergeIntoParentKeepExisting(parent, state_data) ==
    IF state_data # EmptyDict THEN parent @@ state_data ELSE parent

MergeIntoParentReplacing(parent, state_data) == state_data

MergeIntoParent(parent, state_data) ==
    IF state_data # EmptyDict THEN DictUpdate(parent, state_data) ELSE parent

\* after the results: the workflow's status, then the merge into the parent
\* session state
Settlement ==
    /\ phase = "settle"
    /\ phase' = "done"
    /\ IF UseOutputKeyMode
       THEN /\ cache' = [cache EXCEPT ![SessionId] = SettleStatus(@, completed_count)]
            /\ parent_state' = MergeIntoParent(parent_state, WorkflowStateOf.state_data)
       ELSE UNCHANGED <<cache, parent_state>>
    /\ UNCHANGED <<max_workers, output_key, sem_value, sem_waiters, pc, events,
                   collected_output, sub_state, error, completed_count, yielded,
                   call, pcS, lock, injectionVars>>

\* the sub-agents that hold a slot of the semaphore
InFlight == {i \in Agents : pc[i] \in {"running", "write", "record", "fail"}}

\* the task driving run_async is cancelled while it awaits the gather: the
\* gather cancels every task that has not finished, CancelledError passes
\* "except Exception" and leaves "async with self.semaphore"
\* and "async with ..._lock"; run_async ends with it, before the results, the
\* status and the merge
CancelFlushingWrite ==
    /\ phase = "gather"
    /\ phase' = "cancelled"
    /\ pc' = [i \in Agents |-> IF Settled(i) THEN pc[i] ELSE "cancelled"]
    /\ sem_value' = sem_value + Cardinality(InFlight)
    /\ sem_waiters' = <<>>
    /\ cache' = IF \E i \in Agents : pc[i] = "write"
                THEN LET i == CHOOSE j \in Agents : pc[j] = "write"
                     IN  UpdateOutputConcurrent(cache, SessionId, output_key[i],
                                                Join(collected_output[i])).cache
                ELSE cache
    /\ lock' = NoHolder
    /\ UNCHANGED <<max_workers, output_key, parent_state, events,
                   collected_output, sub_state, error, completed_count, yielded,
                   call, pcS, injectionVars>>

\* a cancellation that ends run_async and leaves its tasks running
CancelKeepingTasks ==
    /\ phase = "gather"
    /\ phase' = "cancelled"
    /\ UNCHANGED <<max_workers, output_key, sem_value, sem_waiters, cache,
                   parent_state, pc, events, collected_output, sub_state, error,
                   completed_count, yielded, call, pcS, lock, injectionVars>>

Cancel ==
    /\ phase = "gather"
    /\ phase' = "cancelled"
    /\ pc' = [i \in Agents |-> IF Settled(i) THEN pc[i] ELSE "cancelled"]
    /\ sem_value' = sem_value + Cardinality(InFlight)
    /\ sem_waiters' = <<>>
    /\ lock' = NoHolder
    /\ UNCHANGED <<max_workers, output_key, cache, parent_state, events,
                   collected_output, sub_state, error, completed_count, yielded,
                   call, pcS, injectionVars>>

Next ==
    \/ RunAsync
    \/ \E i \in Agents : Arrive(i)
    \/ \E i \in Agents : Admit(i)
    \/ \E i \in Agents : Finish(i)
    \/ \E i \in Agents : Raise(i)
    \/ \E i \in Agents : AcquireLock(i)
    \/ \E i \in Agents : Write(i)
    \/ \E i \in Agents : Record(i)
    \/ \E i \in Agents : RecordFailed(i)
    \/ \E i \in Agents : FinishShared(i)
    \/ \E i \in Agents : RaiseShared(i)
    \/ ProcessResults
    \/ Settlement
    \/ Cancel

Spec == Init /\ [][Next]_vars

\* a run_async that nothing cancels, on an event loop that runs a ready task
\* whenever there is one
NextRun ==
    \/ RunAsync
    \/ \E i \in Agents : Arrive(i)
    \/ \E i \in Agents : Admit(i)
    \/ \E i \in Agents : Finish(i)
    \/ \E i \in Agents : Raise(i)
    \/ \E i \in Agents : AcquireLock(i)
    \/ \E i \in Agents : Write(i)
    \/ \E i \in Agents : Record(i)
    \/ \E i \in Agents : RecordFailed(i)
    \/ \E i \in Agents : FinishShared(i)
    \/ \E i \in Agents : RaiseShared(i)
    \/ ProcessResults
    \/ Settlement

\* the agents of the fair runs: every sub-agent declares its own key, or
\* the second one declares none, or none does
InitRun ==
    /\ Init
    /\ \/ \A i \in Agents : output_key[i] = OwnKey(i)
       \/ \A i \in Agents : output_key[i] = IF i = 1 THEN NoKey ELSE OwnKey(i)
       \/ \A i \in Agents : output_key[i] = NoKey

SpecFair == InitRun /\ [][NextRun]_vars /\ WF_vars(NextRun)

\* ------------------------------------------------------------- constructor
\* the values tried as max_workers, each as an int and as a value of another type
MaxWorkersInputs ==
    [is_int : BOOLEAN, value : (0 - 1) .. (MaxWorkersLimit + InputMargin)]

\* before KAgentParallelAgent(...) is called: max_workers holds the argument
InitNew ==
    /\ max_workers \in MaxWorkersInputs
    /\ output_key = [i \in Agents |-> NoKey]
    /\ sem_value = 0
    /\ sem_waiters = <<>>
    /\ phase = "new"
    /\ cache = EmptyDict
    /\ parent_state = InitialParentState
    /\ pc = [i \in Agents |-> "none"]
    /\ events = [i \in Agents |-> <<>>]
    /\ collected_output = [i \in Agents |-> <<>>]
    /\ sub_state = [i \in Agents |-> EmptyDict]
    /\ error = [i \in Agents |-> NoValue]
    /\ completed_count = 0
    /\ yielded = <<>>
    /\ call = [c \in Callers |-> NoCall]
    /\ pcS = [c \in Callers |-> "none"]
    /\ lock = NoHolder
    /\ NoInjection

\* KAgentParallelAgent.__init__: the validation, then the field and the semaphore
Construct ==
    /\ phase = "new"
    /\ IF ValidateMaxWorkers(max_workers) = "ok"
       THEN /\ phase' = "idle"
            /\ max_workers' = max_workers.value
            /\ sem_value' = SemaphoreInit(max_workers.value)
       ELSE /\ phase' = "rejected"
            /\ UNCHANGED <<max_workers, sem_value>>
    /\ UNCHANGED <<output_key, sem_waiters, cache, parent_state, pc, events,
                   collected_output, sub_state, error, completed_count, yielded,
                   call, pcS, lock, injectionVars>>

NextInit ==
    \/ Construct
    \/ RunAsync

SpecInit == InitNew /\ [][NextInit]_vars

\* ------------------------------------------------------------- store callers
StoreKeys == {OwnKey(i) : i \in Agents}
StoreValues == SeqsUpTo({SmallChar, WideChar}, MaxValueLen)
StoreIds == {SessionId, UnknownId}

\* a WorkflowStateManager holding one workflow, and callers yet to call
InitStore ==
    /\ max_workers = 1
    /\ output_key = [i \in Agents |-> NoKey]
    /\ sem_value = SemaphoreInit(max_workers)
    /\ sem_waiters = <<>>
    /\ phase = "none"
    /\ cache = CreateWorkflow(EmptyDict, SessionId)
    /\ parent_state = EmptyDict
    /\ pc = [i \in Agents |-> "none"]
    /\ events = [i \in Agents |-> <<>>]
    /\ collected_output = [i \in Agents |-> <<>>]
    /\ sub_state = [i \in Agents |-> EmptyDict]
    /\ error = [i \in Agents |-> NoValue]
    /\ completed_count = 0
    /\ yielded = <<>>
    /\ call = [c \in Callers |-> NoCall]
    /\ pcS = [c \in Callers |-> "idle"]
    /\ lock = NoHolder
    /\ NoInjection

\* the operations of the store that take the lock
LockingOps == {"update_output_concurrent", "add_execution_concurrent"}
\* the other operations of the store on a workflow id
OtherOps == {"add_execution_concurrent", "update_output", "get_outputs",
             "create_workflow"}

\* update_output_concurrent(id, key, value) is called: up to "async with self._lock"
Call(c) ==
    /\ pcS[c] = "idle"
    /\ \E id \in StoreIds, key \in StoreKeys, value \in StoreValues :
          call' = [call EXCEPT ![c] = [op |-> "update_output_concurrent", id |-> id,
                                       key |-> key, value |-> value]]
    /\ pcS' = [pcS EXCEPT ![c] = "waiting"]
    /\ UNCHANGED <<cache, lock, fanoutVars, injectionVars>>

\* add_execution_concurrent(id, execution), update_output(id, key, value),
\* get_outputs(id) or create_workflow(id, ...) is called
CallOther(c) ==
    /\ pcS[c] = "idle"
    /\ \E op \in OtherOps, id \in StoreIds, key \in StoreKeys, value \in StoreValues :
          /\ op = "update_output" \/ (key = OwnKey(0) /\ value = <<>>)
          /\ call' = [call EXCEPT ![c] = [op |-> op, id |-> id, key |-> key,
                                          value |-> value]]
    /\ pcS' = [pcS EXCEPT ![c] = "waiting"]
    /\ UNCHANGED <<cache, lock, fanoutVars, injectionVars>>

\* "async with self._lock", __aenter__: the caller takes the free lock
Acquire(c) ==
    /\ pcS[c] = "waiting"
    /\ call[c].op \in LockingOps
    /\ lock = NoHolder
    /\ lock' = c
    /\ pcS' = [pcS EXCEPT ![c] = "locked"]
    /\ UNCHANGED <<cache, call, fanoutVars, injectionVars>>

\* the caller holds the lock: the write or the append, or the KeyError /
\* ValueError that leaves the section
Commit(c) ==
    /\ pcS[c] = "locked"
    /\ lock = c
    /\ LET r == IF call[c].op = "update_output_concurrent"
                THEN UpdateOutputConcurrent(cache, call[c].id, call[c].key, call[c].value)
                ELSE AddExecutionConcurrent(cache, call[c].id, FailedRecord(0))
       IN  /\ cache' = r.cache
           /\ pcS' = [pcS EXCEPT ![c] = r.result]
           /\ lock' = ReleaseOnExit(c, r.result)
    /\ UNCHANGED <<call, fanoutVars, injectionVars>>

\* update_output, get_outputs and create_workflow: no lock, the whole call is
\* one step
Direct(c) ==
    /\ pcS[c] = "waiting"
    /\ call[c].op \notin LockingOps
    /\ LET r == IF call[c].op = "update_output"
                THEN UpdateOutput(cache, call[c].id, call[c].key, call[c].value)
                ELSE IF call[c].op = "get_outputs"
                THEN GetOutputs(cache, call[c].id)
                ELSE CreateWorkflowOp(cache, call[c].id)
       IN  /\ cache' = r.cache
           /\ pcS' = [pcS EXCEPT ![c] = r.result]
    /\ UNCHANGED <<call, lock, fanoutVars, injectionVars>>

\* workflow_state.mark_completed() on the workflow of the store
MarkCompletedCall ==
    /\ cache' = [cache EXCEPT ![SessionId] = MarkCompleted(@)]
    /\ UNCHANGED <<call, pcS, lock, fanoutVars, injectionVars>>

\* workflow_state.mark_failed(error_message) on the workflow of the store
MarkFailedCall ==
    /\ cache' = [cache EXCEPT ![SessionId] = MarkFailed(@, AllFailedMessage)]
    /\ UNCHANGED <<call, pcS, lock, fanoutVars, injectionVars>>

\* add_execution_concurrent(id, execution) with the record of a failed
\* sub-agent, by a task that is not one of the callers: it takes the free lock
\* and has left it when the step ends
AddExecutionCall ==
    /\ lock = NoHolder
    /\ \E id \in StoreIds :
          /\ id \in DOMAIN cache => Len(cache[id].sub_agent_executions) < MaxRecords
          /\ cache' = AddExecutionConcurrent(cache, id, FailedRecord(0)).cache
    /\ UNCHANGED <<call, pcS, lock, fanoutVars, injectionVars>>

NextStore ==
    \/ \E c \in Callers : Call(c)
    \/ \E c \in Callers : Acquire(c)
    \/ \E c \in Callers : Commit(c)

SpecStore == InitStore /\ [][NextStore]_vars

\* every operation on one WorkflowState, in any order
NextState ==
    \/ \E c \in Callers : Call(c)
    \/ \E c \in Callers : CallOther(c)
    \/ \E c \in Callers : Acquire(c)
    \/ \E c \in Callers : Commit(c)
    \/ \E c \in Callers : Direct(c)
    \/ MarkCompletedCall
    \/ MarkFailedCall
    \/ AddExecutionCall

SpecState == InitStore /\ [][NextState]_vars

\* ------------------------------------------- calls of injection.py
TemplateChars == {LeftBrace, RightBrace, LetterA, Hyphen}
Templates == SeqsUpTo(TemplateChars, MaxTemplateLen)
InjectionKeys == {<<LetterA>>, <<LetterA, LetterA>>}
InjectionValues == {<<Hyphen>>, <<LeftBrace>>, <<LeftBrace, LetterA, RightBrace>>}
InjectionStates == UNION {[K -> InjectionValues] : K \in SUBSET InjectionKeys}

Repeat(c, n) == [k \in 1..n |-> c]
KeyChars == {LetterA, DigitOne, Underscore, Hyphen, NewLine}
KeyNames ==
    SeqsUpTo(KeyChars, MaxShortKeyLen)
        \cup {Repeat(LetterA, n) : n \in 0..(MaxKeyLength + InputMargin)}

\* a caller about to call inject_state_keys(template, state) or
\* validate_output_key(key)
InitInjection ==
    /\ max_workers = 1
    /\ output_key = [i \in Agents |-> NoKey]
    /\ sem_value = SemaphoreInit(max_workers)
    /\ sem_waiters = <<>>
    /\ phase = "none"
    /\ cache = EmptyDict
    /\ parent_state = EmptyDict
    /\ pc = [i \in Agents |-> "none"]
    /\ events = [i \in Agents |-> <<>>]
    /\ collected_output = [i \in Agents |-> <<>>]
    /\ sub_state = [i \in Agents |-> EmptyDict]
    /\ error = [i \in Agents |-> NoValue]
    /\ completed_count = 0
    /\ yielded = <<>>
    /\ call = [c \in Callers |-> NoCall]
    /\ pcS = [c \in Callers |-> "none"]
    /\ lock = NoHolder
    /\ result = Pending
    /\ \/ /\ fn = "inject_state_keys"
          /\ template \in Templates
          /\ state \in InjectionStates
          /\ key_name = <<>>
       \/ /\ fn = "validate_output_key"
          /\ key_name \in KeyNames
          /\ template = <<>>
          /\ state = EmptyDict

InjectStateKeysCall ==
    /\ fn = "inject_state_keys"
    /\ result = Pending
    /\ result' = InjectStateKeys(template, state)
    /\ UNCHANGED <<fn, template, state, key_name, cache, call, pcS, lock, fanoutVars>>

ValidateOutputKeyCall ==
    /\ fn = "validate_output_key"
    /\ result = Pending
    /\ result' = ValidateOutputKey(key_name)
    /\ UNCHANGED <<fn, template, state, key_name, cache, call, pcS, lock, fanoutVars>>

NextInjection == InjectStateKeysCall \/ ValidateOutputKeyCall

SpecInjection == InitInjection /\ [][NextInjection]_vars

\* ------------------------------------------- writes of a sub-agent's body
\* what the body of sub-agent i writes into the state of its session: a key
\* of its own, or its output key
ScratchKey(i) == <<115, 48 + i>>
ScratchValue == <<115>>
BodyKeys(i) == {ScratchKey(i)} \cup ({output_key[i]} \ {NoKey})

\* the sub-agents whose context has been built
HasContext(j) == pc[j] \notin {"none", "created", "waiting"}

\* shared-session mode: sub_context = parent_context.model_copy(deep=False),
\* the session of every sub-agent is the parent's session object
SharedSessionWrite(i, k, v) ==
    /\ parent_state' = (k :> v) @@ parent_state
    /\ sub_state' = [j \in Agents |->
                        IF HasContext(j) THEN (k :> v) @@ sub_state[j] ELSE sub_state[j]]

\* a merged_state that is the parent's dict and not a copy of it
OwnSessionWriteAliased(i, k, v) ==
    /\ sub_state' = [sub_state EXCEPT ![i] = (k :> v) @@ @]
    /\ parent_state' = (k :> v) @@ parent_state

\* outputKey mode: Session(state=merged_state), a dict built for this task
OwnSessionWrite(i, k, v) ==
    /\ sub_state' = [sub_state EXCEPT ![i] = (k :> v) @@ @]
    /\ UNCHANGED parent_state

\* the body of a sub-agent assigns ctx.session.state[k], once
BodyWrite(i) ==
    /\ pc[i] = "running"
    /\ \E k \in BodyKeys(i) :
          /\ \A h \in DOMAIN sub_state[i] : sub_state[i][h] # ScratchValue
          /\ IF UseOutputKeyMode
             THEN OwnSessionWrite(i, k, ScratchValue)
             ELSE SharedSessionWrite(i, k, ScratchValue)
    /\ UNCHANGED <<max_workers, output_key, sem_value, sem_waiters, phase, cache,
                   pc, events, collected_output, error, completed_count, yielded,
                   call, pcS, lock, injectionVars>>

NextIsolation ==
    \/ Next
    \/ \E i \in Agents : BodyWrite(i)

\* the agents of these runs: fewer slots than sub-agents; every sub-agent
\* declares its own key, or none does
InitIsolation ==
    /\ Init
    /\ max_workers < NumAgents
    /\ \/ \A i \in Agents : output_key[i] = OwnKey(i)
       \/ \A i \in Agents : output_key[i] = NoKey

\* run_async over sub-agents whose bodies write into their session state
SpecIsolation == InitIsolation /\ [][NextIsolation]_vars

\* ------------------------------------------------------------- properties
StateData == WorkflowStateOf.state_data
Executions == WorkflowStateOf.sub_agent_executions
ExecutionsOf(i) == {n \in DOMAIN Executions : Executions[n].index = i}

\* C1: at every instant of a fan-out, in either mode and whatever succeeds or
\* fails, at most max_workers sub-agents hold a slot of the admission semaphore.
C1_InFlightBounded == Cardinality(InFlight) <= max_workers

\* the gate is saturated: two hold a slot, one of them failing, a third waits
C1_Witness ==
    /\ max_workers = 2
    /\ Cardinality(InFlight) = 2
    /\ sem_waiters # <<>>
    /\ \E i \in Agents : pc[i] = "fail"

CallsDone == \A c \in Callers : pcS[c] \notin {"none", "idle", "waiting", "locked"}

\* C2: concurrent update_output_concurrent calls on one workflow, with distinct
\* keys and values within the cap: once all have returned, state_data holds
\* exactly the keys written, each with the value of its own caller.
C2_NoLostWrite ==
    (/\ CallsDone
     /\ \A c \in Callers : call[c].id = SessionId /\ Utf8Len(call[c].value) <= MaxSizeBytes
     /\ \A c, d \in Callers : c # d => call[c].key # call[d].key)
    => /\ \A c \in Callers : pcS[c] = "ok"
       /\ DOMAIN StateData = {call[c].key : c \in Callers}
       /\ \A c \in Callers : StateData[call[c].key] = call[c].value

\* every caller has written, each its own key and a value of its own
C2_Witness ==
    /\ \A c \in Callers : pcS[c] = "ok"
    /\ \A c, d \in Callers :
          c # d => call[c].key # call[d].key /\ call[c].value # call[d].value

\* C3: a write of a value whose UTF-8 encoding exceeds the cap raises the
\* size-limit error and leaves state_data as it was, the written key included.
C3_OversizeRejected ==
    [][\A c \in Callers :
          (/\ pcS[c] = "locked"
           /\ pcS'[c] # "locked"
           /\ call[c].id \in DOMAIN cache
           /\ Utf8Len(call[c].value) > MaxSizeBytes)
          => /\ pcS'[c] = "ValueError"
             /\ cache'[call[c].id].state_data = cache[call[c].id].state_data]_vars

\* an oversize write to a key that another caller has written was rejected, and
\* the key holds the other caller's value
C3_Witness ==
    \E c, d \in Callers :
       /\ pcS[c] = "ValueError"
       /\ pcS[d] = "ok"
       /\ call[d].id = SessionId
       /\ call[c].key = call[d].key
       /\ StateData[call[c].key] = call[d].value

AfterGather == phase \in {"settle", "done"}
AllKeysDistinct == \A i \in Agents : output_key[i] = OwnKey(i)
Returned == {i \in Agents : pc[i] = "returned"}
Raised == {i \in Agents : pc[i] = "raised"}
DeclaredOnce(i) ==
    output_key[i] # NoKey /\ \A j \in Agents : j # i => output_key[j] # output_key[i]

\* C4: outputKey mode, pairwise distinct keys, the sub-agents of F raise in
\* their body: after settlement state_data holds exactly the keys of the
\* sub-agents that succeeded, and each failed one has a failed record with an error.
C4_ExactlySuccessfulKeys ==
    (/\ AfterGather
     /\ AllKeysDistinct
     /\ Raised # {}
     /\ \A i \in Raised : error[i] = BodyError)
    => /\ DOMAIN StateData = {output_key[i] : i \in Returned}
       /\ \A i \in Raised :
             /\ output_key[i] \notin DOMAIN StateData
             /\ \E n \in ExecutionsOf(i) :
                   Executions[n].status = "failed" /\ Executions[n].error # NoValue

\* the events run_async yielded that report the failure of sub-agent i
FailureEvents(i) == {n \in DOMAIN yielded : yielded[n] = ErrorEvent(i, error[i])}

\* C5: a sub-agent that raises does not stop the fan-out: when run_async goes on
\* after the gather, every sub-agent has been admitted and has settled, and
\* one failure event was yielded for each that raised.
C5_FailureIsolated ==
    AfterGather =>
       \A i \in Agents :
          /\ Settled(i)
          /\ pc[i] = "raised" => Cardinality(FailureEvents(i)) = 1

\* one slot: the first sub-agent raised, and the two behind it still ran
C5_Witness ==
    /\ phase = "done"
    /\ max_workers = 1
    /\ pc[0] = "raised"
    /\ pc[1] = "returned" /\ pc[2] = "returned"
    /\ Cardinality(FailureEvents(0)) = 1

\* C6: outputKey mode, run_async finished: the status is completed if a
\* sub-agent succeeded, else failed with an error message; run_async ends
\* normally in both cases.
C6_StatusFromOutcomes ==
    (phase = "done" /\ UseOutputKeyMode)
    => IF Returned # {}
       THEN WorkflowStateOf.status = "completed"
       ELSE WorkflowStateOf.status = "failed" /\ WorkflowStateOf.error_message # NoValue

\* a partial failure: one sub-agent succeeded, the others failed
C6_Witness ==
    /\ phase = "done"
    /\ UseOutputKeyMode
    /\ Cardinality(Returned) = 1
    /\ WorkflowStateOf.status = "completed"

\* C7: outputKey mode, at least one success, run_async finished: the parent
\* session state holds every key of state_data with its committed value.
C7_OutputsMerged ==
    (phase = "done" /\ UseOutputKeyMode /\ Returned # {})
    => /\ \A k \in DOMAIN StateData :
             k \in DOMAIN parent_state /\ parent_state[k] = StateData[k]
       /\ \A i \in Returned :
             (DeclaredOnce(i) /\ collected_output[i] # <<>>)
             => parent_state[output_key[i]] = Join(collected_output[i])

\* the last declared sub-agent committed first, under a key the parent held,
\* and another sub-agent failed
C7_Witness ==
    /\ phase = "done"
    /\ UseOutputKeyMode
    /\ Len(Executions) = NumAgents
    /\ Executions[1].index = 2 /\ Executions[1].status = "success"
    /\ OwnKey(2) \in DOMAIN StateData
    /\ Cardinality(DOMAIN StateData) = 2
    /\ Raised # {}

\* C8: pairwise distinct keys and no failure: after settlement state_data has
\* NumAgents entries and holds every declared key, whatever the streams held.
C8_AllKeysPresent ==
    (AfterGather /\ AllKeysDistinct /\ Returned = Agents)
    => /\ Cardinality(DOMAIN StateData) = NumAgents
       /\ \A i \in Agents : output_key[i] \in DOMAIN StateData

SuccessRecords == {n \in DOMAIN Executions : Executions[n].status = "success"}

\* C9: pairwise distinct keys, every success record that of a sub-agent whose
\* output was committed: the completion orders of the M success records are
\* exactly 1..M, also when failed sub-agents settle before or between them.
C9_SuccessOrdersGapless ==
    (/\ SessionId \in DOMAIN cache
     /\ AllKeysDistinct
     /\ \A n \in SuccessRecords : Executions[n].output_key \in DOMAIN StateData)
    => {Executions[n].completion_order : n \in SuccessRecords}
          = 1 .. Cardinality(SuccessRecords)

\* C10: no two execution records of a workflow carry the same non-null
\* completion_order.
C10_OrdersUnique ==
    SessionId \in DOMAIN cache
    => \A a, b \in DOMAIN Executions :
          (/\ a # b
           /\ Executions[a].completion_order # NoOrder
           /\ Executions[b].completion_order # NoOrder)
          => Executions[a].completion_order # Executions[b].completion_order

\* two success records around a failed one
C10_Witness ==
    /\ SessionId \in DOMAIN cache
    /\ Len(Executions) = 3
    /\ Executions[1].status = "success"
    /\ Executions[2].status = "failed"
    /\ Executions[3].status = "success"

\* C11: outputKey mode, some sub-agents fail: after settlement every record,
\* of a successful and of a failed sub-agent alike, carries a completion_order,
\* and the orders over the NumAgents records are exactly 1..NumAgents.
C11_OrdersCoverAllRecords ==
    (AfterGather /\ UseOutputKeyMode /\ Raised # {})
    => /\ \A n \in DOMAIN Executions : Executions[n].completion_order # NoOrder
       /\ {Executions[n].completion_order : n \in DOMAIN Executions} = 1 .. NumAgents

\* the sub-agents that are between their write and their record
MidCommit == {i \in Agents : pc[i] = "record"}

\* C12: pairwise distinct keys: in every state in which no sub-agent is between
\* its write and its record, a sub-agent's key is in state_data if and only if
\* a success record of that sub-agent is in sub_agent_executions.
C12_KeyIffSuccessRecord ==
    (SessionId \in DOMAIN cache /\ AllKeysDistinct /\ MidCommit = {})
    => \A i \in Agents :
          output_key[i] \in DOMAIN StateData
          <=> \E n \in ExecutionsOf(i) : Executions[n].status = "success"

\* the positions of a task from "Session(state=merged_state)" on
Entered == {"running", "write", "record", "fail", "returned", "raised"}

\* C13: outputKey mode: the state of a sub-agent's session is built once, when
\* the sub-agent starts, and never changes afterwards, whatever the other
\* sub-agents commit.
C13_SnapshotFrozen ==
    [][\A i \in Agents :
          (UseOutputKeyMode /\ pc[i] \in Entered) => sub_state'[i] = sub_state[i]]_vars

\* a sub-agent is running while the committed output of another one is in the
\* store and not in its session state
C13_Witness ==
    /\ UseOutputKeyMode
    /\ \E i, j \in Agents :
          /\ pc[i] = "running"
          /\ pc[j] = "returned"
          /\ output_key[j] \in DOMAIN StateData
          /\ output_key[j] \notin DOMAIN sub_state[i]

\* parent state and the store's outputs when run_async creates the tasks
SnapshotAtScheduling == DictUpdate(InitialParentState, NewWorkflowState.state_data)

\* C14: outputKey mode: a sub-agent that waited at the semaphore starts with the
\* snapshot of scheduling time, the one a sub-agent admitted at once starts
\* with: no output of a sub-agent of the same fan-out is in it.
C14_WaiterStartsFromSchedulingSnapshot ==
    [][\A i \in Agents :
          (UseOutputKeyMode /\ pc[i] = "waiting" /\ pc'[i] = "running")
          => sub_state'[i] = SnapshotAtScheduling]_vars

\* C15: two sub-agents declare the same key: run_async raises the validation
\* error before it schedules; no body runs and nothing is committed.
C15_DuplicateKeysRejected ==
    ValidateUniqueOutputKeys = "ValueError"
    => /\ \A i \in Agents : pc[i] \notin Entered
       /\ SessionId \in DOMAIN cache => StateData = EmptyDict

\* C16: whatever sequence of mark_completed, mark_failed, output writes and
\* record appends is applied to a WorkflowState, its status never changes once
\* it is completed or failed.
C16_StatusTerminal ==
    [][WorkflowStateOf.status # "running"
       => WorkflowStateOf'.status = WorkflowStateOf.status]_vars

\* C17: outputKey mode: sub_agent_executions holds at most one record per
\* sub-agent and never more records than sub-agents have settled; after
\* settlement it holds exactly one record per sub-agent.
C17_OneRecordPerSibling ==
    (UseOutputKeyMode /\ SessionId \in DOMAIN cache)
    => /\ \A i \in Agents : Cardinality(ExecutionsOf(i)) <= 1
       /\ Len(Executions) <= Cardinality({i \in Agents : Settled(i)})
       /\ AfterGather => \A i \in Agents : Cardinality(ExecutionsOf(i)) = 1

\* settled: a record each for a success, a failure in the body and a write
\* that the size cap rejected
C17_Witness ==
    /\ phase = "done"
    /\ UseOutputKeyMode
    /\ Len(Executions) = NumAgents
    /\ \E i, j, k \in Agents :
          /\ pc[i] = "returned"
          /\ pc[j] = "raised" /\ error[j] = BodyError
          /\ pc[k] = "raised" /\ error[k] = SizeLimitError

\* C18: outputKey mode, every sub-agent failed: the parent session state after
\* run_async is the one before it.
C18_AllFailedLeavesParent ==
    (phase = "done" /\ UseOutputKeyMode /\ Returned = {})
    => parent_state = InitialParentState

\* every sub-agent failed, one of them at its write
C18_Witness ==
    /\ phase = "done"
    /\ UseOutputKeyMode
    /\ Raised = Agents
    /\ \E i \in Agents : error[i] = SizeLimitError
    /\ WorkflowStateOf.status = "failed"

\* C19: the parent session state changes in one step only, the merge of
\* run_async after the results, when every sub-agent has settled.
C19_ParentChangesOnlyAtMerge ==
    [][parent_state' # parent_state
       => /\ \A i \in Agents : Settled(i)
          /\ phase = "settle" /\ phase' = "done"
          /\ parent_state' = DictUpdate(parent_state, StateData)]_vars

\* the merge has changed the parent session state
C19_Witness ==
    /\ phase = "done"
    /\ parent_state # InitialParentState
    /\ Raised # {}

\* C20: outputKey mode, run_async is cancelled while sub-agents are in flight:
\* state_data is after the cancellation what it was before it, so that every
\* committed output stays with its value and no other sub-agent adds an entry.
C20_CancelKeepsOutputs ==
    [][(UseOutputKeyMode /\ phase' = "cancelled") => StateData' = StateData]_vars

\* cancelled with one output committed, one sub-agent stopped before its write
\* and one stopped in its body
C20_Witness ==
    /\ phase = "cancelled"
    /\ AllKeysDistinct
    /\ DOMAIN StateData = {OwnKey(0)}
    /\ pc[0] = "returned" /\ StateData[OwnKey(0)] = Join(collected_output[0])
    /\ pc[1] = "cancelled" /\ collected_output[1] # <<>>
    /\ pc[2] = "cancelled" /\ sub_state[2] # EmptyDict

\* C21: the store's lock is never held by a sub-agent whose body is running or
\* has yet to run: its holder has drained its stream and is at its write or at
\* its record, so a body that takes long keeps no other sub-agent from the lock.
C21_LockOnlyForCommit ==
    lock # NoHolder => pc[lock] \in {"write", "record", "fail"}

\* a sub-agent holds the lock for its commit while another one's body is
\* running and a third waits for the lock
C21_Witness ==
    /\ lock # NoHolder
    /\ \E j \in Agents : pc[j] = "running"
    /\ \E k \in Agents : k # lock /\ pc[k] \in {"write", "record", "fail"}

\* C22: during a fan-out every change of the workflow's state_data,
\* sub_agent_executions or status is made by a step whose task holds the
\* store's lock.
C22_MutationsUnderLock ==
    [][(SessionId \in DOMAIN cache /\ cache'[SessionId] # cache[SessionId])
       => lock # NoHolder]_vars

\* the events of sub-agent i among those run_async yielded
YieldedOf(i) == SelectSeq(yielded, LAMBDA e : e.sub_agent = i)

\* C23: run_async works on a workflow state if and only if a sub-agent
\* declares a non-empty output key; with no key declared nothing is created in
\* the store, nothing committed, the parent session state is left as it was
\* and the events of the sub-agents are yielded as they came.
C23_ModeDetection ==
    phase # "idle"
    => /\ (\E i \in Agents : output_key[i] # NoKey) <=> SessionId \in DOMAIN cache
       /\ (\A i \in Agents : output_key[i] = NoKey)
          => /\ cache = EmptyDict
             /\ lock = NoHolder
             /\ parent_state = InitialParentState
             /\ AfterGather => \A i \in Returned : YieldedOf(i) = events[i]

\* a finished run without keys: events were forwarded, one sub-agent failed
C23_Witness ==
    /\ phase = "done"
    /\ \A i \in Agents : output_key[i] = NoKey
    /\ Raised # {}
    /\ \E i \in Returned : Len(events[i]) = MaxEvents /\ YieldedOf(i) = events[i]

\* C24: a sub-agent that waits at the semaphore is admitted only when no
\* sub-agent declared before it, which began to wait before it, still waits.
C24_FifoAdmission ==
    [][\A i \in Agents :
          (pc[i] = "waiting" /\ pc'[i] = "running")
          => \A j \in Agents : pc[j] = "waiting" => i <= j]_vars

\* one slot, given back by sub-agent 0: sub-agent 1 has it, sub-agent 2 waits
C24_Witness ==
    /\ max_workers = 1
    /\ Settled(0)
    /\ pc[1] = "running"
    /\ sem_waiters = <<2>>

\* C25: the body of a sub-agent is started from the semaphore only, and a
\* sub-agent that has left its body, with or without an exception, never runs
\* or waits again.
C25_NoRetry ==
    [][\A i \in Agents :
          /\ (pc'[i] = "running" /\ pc[i] # "running") => pc[i] \in {"created", "waiting"}
          /\ pc[i] \notin {"none", "created", "waiting"}
             => pc'[i] \notin {"none", "created", "waiting"}]_vars

\* a finished run in which a body raised and a write was rejected: one record
\* for each of the two
C25_Witness ==
    /\ phase = "done"
    /\ UseOutputKeyMode
    /\ \E i, j \in Agents :
          /\ pc[i] = "raised" /\ error[i] = BodyError /\ Cardinality(ExecutionsOf(i)) = 1
          /\ pc[j] = "raised" /\ error[j] = SizeLimitError
          /\ Cardinality(ExecutionsOf(j)) = 1

\* C26: create_workflow with an id that the store holds, with outputs, records
\* or a status of its own, fails and leaves the workflow state of that id as
\* it was.
C26_CreateExistingFails ==
    [][\A c \in Callers :
          (/\ pcS[c] = "waiting"
           /\ pcS'[c] # "waiting"
           /\ call[c].op = "create_workflow"
           /\ call[c].id \in DOMAIN cache
           /\ cache[call[c].id] # NewWorkflowState)
          => /\ pcS'[c] # "ok"
             /\ cache' = cache]_vars

\* C27: an operation of the store on an id that was never created raises its
\* not-found error (KeyError, or ValueError for update_output and get_outputs),
\* creates nothing for that id and leaves the workflow states as they were.
C27_UnknownIdRejected ==
    [][\A c \in Callers :
          (/\ pcS[c] \in {"waiting", "locked"}
           /\ pcS'[c] \notin {"waiting", "locked"}
           /\ call[c].op # "create_workflow"
           /\ call[c].id \notin DOMAIN cache)
          => /\ pcS'[c] = IF call[c].op \in LockingOps THEN "KeyError" ELSE "ValueError"
             /\ cache' = cache]_vars

\* two operations on the unknown id have failed, one of them under the lock,
\* next to a workflow that holds a record
C27_Witness ==
    /\ UnknownId \notin DOMAIN cache
    /\ Len(cache[SessionId].sub_agent_executions) > 0
    /\ \E c, d \in Callers :
          /\ call[c].id = UnknownId /\ pcS[c] = "KeyError"
          /\ call[d].id = UnknownId /\ pcS[d] = "ValueError"

\* C28: the constructor accepts max_workers if and only if it is an int in
\* 1..MaxWorkersLimit; any other argument raises, and no sub-agent is scheduled
\* on an agent that was not constructed.
C28_MaxWorkersRange ==
    [][/\ phase = "new"
          => IF max_workers.is_int /\ max_workers.value \in 1 .. MaxWorkersLimit
             THEN phase' = "idle" /\ max_workers' = max_workers.value
             ELSE phase' = "rejected" /\ pc' = pc
       /\ phase = "rejected" => phase' = "rejected" /\ pc' = pc]_vars

\* constructed with the largest max_workers allowed, and scheduled
C28_Witness ==
    /\ phase = "gather"
    /\ max_workers = MaxWorkersLimit
    /\ sem_value = MaxWorkersLimit

\* C29: an operation that fails under the lock gives the lock back: the lock is
\* held only by a caller inside its section, and once all callers have
\* returned the lock is free and every write within the cap to the known
\* workflow has landed.
C29_LockReleasedOnError ==
    /\ lock # NoHolder => pcS[lock] = "locked"
    /\ CallsDone
       => /\ lock = NoHolder
          /\ \A c \in Callers :
                (call[c].id = SessionId /\ Utf8Len(call[c].value) <= MaxSizeBytes)
                => pcS[c] = "ok" /\ call[c].key \in DOMAIN StateData

\* a caller was rejected under the lock, and the other caller holds the lock
\* after it
C29_Witness ==
    \E c, d \in Callers :
       /\ pcS[c] \in {"KeyError", "ValueError"}
       /\ pcS[d] = "locked"
       /\ lock = d

\* C30: a successful write to a key that state_data holds replaces the value
\* of that key and leaves the set of keys and the other values as they were,
\* so that the value of a key is the one of the last write under the lock.
C30_OverwriteReplaces ==
    [][\A c \in Callers :
          (/\ pcS[c] = "locked"
           /\ pcS'[c] = "ok"
           /\ call[c].key \in DOMAIN StateData)
          => /\ DOMAIN StateData' = DOMAIN StateData
             /\ StateData'[call[c].key] = call[c].value
             /\ \A k \in DOMAIN StateData :
                   k # call[c].key => StateData'[k] = StateData[k]]_vars

\* two writes to one key with different values have landed: one entry
C30_Witness ==
    \E c, d \in Callers :
       /\ c # d
       /\ pcS[c] = "ok" /\ pcS[d] = "ok"
       /\ call[c].key = call[d].key
       /\ call[c].value # call[d].value
       /\ Cardinality(DOMAIN StateData) = 1
       /\ StateData[call[c].key] = call[d].value

\* ------------------------------------------- properties of injection.py
Called(f) == fn = f /\ result # Pending

\* the placeholder {key}
Placeholder(key) == <<LeftBrace>> \o key \o <<RightBrace>>

HasBrace(s) == \E k \in DOMAIN s : s[k] \in {LeftBrace, RightBrace}

\* s with every left brace replaced by a character no template holds, and back
MaskText(s) == [k \in DOMAIN s |-> IF s[k] = LeftBrace THEN 0 ELSE s[k]]
UnmaskText(s) == [k \in DOMAIN s |-> IF s[k] = 0 THEN LeftBrace ELSE s[k]]
Masked(st) == [k \in DOMAIN st |-> MaskText(st[k])]

\* C31: inject_state_keys is single-pass.  A template that is one
\* placeholder {k} of a key of the state between two texts without braces
\* gives the first text, the value of k as it is, and the second text; and
\* on every template the braces of the values are inert: the call gives what
\* it gives on values whose left braces are masked, with the mask taken off.
C31_SinglePass ==
    Called("inject_state_keys") =>
        /\ \A k \in DOMAIN state : \A p \in 1..Len(template) :
               LET q == p + Len(k) + 1
                   before == SubSeq(template, 1, p - 1)
                   after == SubSeq(template, q + 1, Len(template))
               IN  (/\ q <= Len(template)
                    /\ SubSeq(template, p, q) = Placeholder(k)
                    /\ ~HasBrace(before)
                    /\ ~HasBrace(after))
                   => result = Returns(before \o state[k] \o after)
        /\ LET masked == InjectStateKeys(template, Masked(state))
           IN  /\ result.raised = masked.raised
               /\ result.text = UnmaskText(masked.text)

\* {aa} with aa -> "{a}" and a -> "-" gives "{a}", not "-"
C31_Witness ==
    /\ Called("inject_state_keys")
    /\ template = Placeholder(<<LetterA, LetterA>>)
    /\ DOMAIN state = InjectionKeys
    /\ state[<<LetterA, LetterA>>] = Placeholder(<<LetterA>>)
    /\ state[<<LetterA>>] = <<Hyphen>>
    /\ result = Returns(Placeholder(<<LetterA>>))

IsIdentifier(s) ==
    /\ Len(s) >= 1
    /\ IsLetterOrUnderscore(s[1])
    /\ \A k \in DOMAIN s : IsWordChar(s[k])

\* the identifiers that the placeholders of a template name
Referenced(tpl) ==
    {SubSeq(tpl, pq[1] + 1, pq[2] - 1) : pq \in
        {pq \in (1..Len(tpl)) \X (1..Len(tpl)) :
            /\ pq[1] < pq[2]
            /\ tpl[pq[1]] = LeftBrace
            /\ tpl[pq[2]] = RightBrace
            /\ IsIdentifier(SubSeq(tpl, pq[1] + 1, pq[2] - 1))}}

\* C32: inject_state_keys on a template that references an identifier absent
\* from the state raises ValueError and returns no text; the error names a
\* referenced key that is missing and lists exactly the keys of the state.
C32_MissingKeyFails ==
    (Called("inject_state_keys") /\ Referenced(template) \ DOMAIN state # {}) =>
        /\ result.raised = "ValueError"
        /\ result.text = <<>>
        /\ result.key \in Referenced(template) \ DOMAIN state
        /\ result.available_keys = DOMAIN state

\* "-{a}" on a state whose only key is aa
C32_Witness ==
    /\ Called("inject_state_keys")
    /\ template = <<Hyphen>> \o Placeholder(<<LetterA>>)
    /\ DOMAIN state = {<<LetterA, LetterA>>}
    /\ result.raised = "ValueError"
    /\ result.key = <<LetterA>>
    /\ result.available_keys = {<<LetterA, LetterA>>}

\* the limit that the tests of validate_output_key expect
ExpectedMaxKeyLength == 100

\* C33: validate_output_key accepts a key if and only if it is non-empty,
\* matches ^[A-Za-z_][A-Za-z0-9_]*$ and has at most 100 characters, and a
\* longer key is rejected as too long.
C33_KeyAcceptedIffValid ==
    Called("validate_output_key") =>
        /\ result.raised = "None" <=>
               /\ key_name # <<>>
               /\ MatchesKeyPattern(key_name)
               /\ Len(key_name) <= ExpectedMaxKeyLength
        /\ (MatchesKeyPattern(key_name) /\ Len(key_name) > ExpectedMaxKeyLength)
               => result.message = "exceeds MaxKeyLength characters"

\* C34: on a fair event loop a run_async that nothing cancels ends: every
\* sub-agent settles (so each was admitted, a failed one having given its
\* slot back), run_async reaches its end, and in outputKey mode the status of
\* the workflow is then no longer running.
C34_FanOutTerminates ==
    <>(/\ phase = "done"
       /\ \A i \in Agents : Settled(i)
       /\ UseOutputKeyMode => WorkflowStateOf.status # "running")

\* a run with one slot in which a sub-agent raised has ended
C34_Witness ==
    /\ phase = "done"
    /\ max_workers = 1
    /\ UseOutputKeyMode
    /\ pc[0] = "raised"
    /\ \A i \in Agents : Settled(i)
    /\ WorkflowStateOf.status # "running"

\* C35: run_async yields nothing before every sub-agent has settled; after
\* the gather it has yielded, sub-agent by sub-agent in declaration order,
\* the events of a sub-agent that returned in the order it emitted them, and
\* one failure event for a sub-agent that raised.
C35_YieldedInDeclarationOrder ==
    /\ yielded # <<>> => \A i \in Agents : Settled(i)
    /\ ~AfterGather => yielded = <<>>
    /\ AfterGather =>
          /\ \A m, n \in DOMAIN yielded :
                m < n => yielded[m].sub_agent <= yielded[n].sub_agent
          /\ \A i \in Agents :
                YieldedOf(i) = IF pc[i] = "raised"
                               THEN <<ErrorEvent(i, error[i])>>
                               ELSE events[i]

\* the last sub-agent completed first and the first one last, the second
\* raised: the two events of the first are yielded first, in their order
C35_Witness ==
    /\ phase = "done"
    /\ UseOutputKeyMode
    /\ Len(Executions) = NumAgents
    /\ Executions[1].index = 2
    /\ Executions[NumAgents].index = 0
    /\ pc[1] = "raised"
    /\ Len(events[0]) = 2
    /\ events[0][1] # events[0][2]
    /\ events[2] # <<>>
    /\ yielded = events[0] \o <<ErrorEvent(1, error[1])>> \o events[2]

\* the sub-agents whose collected output is larger than the size cap
Oversize == {i \in Agents : Utf8Len(OutputValue(i)) > MaxSizeBytes}

\* C36: outputKey mode, after the gather: a sub-agent whose collected output
\* exceeds the size cap has raised with the size-limit error; its key, when no
\* other sub-agent declares it, is not in state_data; it has one execution
\* record, failed, with that error; one failure event is yielded for it; it is
\* not counted as completed, so the status is completed only if some sub-agent
\* returned; and the output of every other sub-agent that committed under a
\* key of its own is in state_data.
C36_OversizeSiblingFails ==
    (AfterGather /\ UseOutputKeyMode) =>
        \A i \in Oversize :
            /\ pc[i] = "raised"
            /\ error[i] = SizeLimitError
            /\ DeclaredOnce(i) => output_key[i] \notin DOMAIN StateData
            /\ \E n \in DOMAIN Executions :
                  /\ ExecutionsOf(i) = {n}
                  /\ Executions[n].status = "failed"
                  /\ Executions[n].error = SizeLimitError
            /\ Cardinality(FailureEvents(i)) = 1
            /\ completed_count = Cardinality(Returned)
            /\ phase = "done" =>
                  WorkflowStateOf.status =
                      IF Returned = {} THEN "failed" ELSE "completed"
            /\ \A j \in Returned :
                  (DeclaredOnce(j) /\ collected_output[j] # <<>>)
                  => /\ output_key[j] \in DOMAIN StateData
                     /\ StateData[output_key[j]] = OutputValue(j)

\* the first sub-agent collected too much, the other two committed
C36_Witness ==
    /\ phase = "done"
    /\ AllKeysDistinct
    /\ Oversize = {0}
    /\ pc[0] = "raised"
    /\ DOMAIN StateData = {OwnKey(1), OwnKey(2)}
    /\ WorkflowStateOf.status = "completed"

\* d is base with the entries of over laid on it
Overlaid(d, base, over) ==
    /\ DOMAIN d = DOMAIN base \cup DOMAIN over
    /\ \A k \in DOMAIN over : d[k] = over[k]
    /\ \A k \in DOMAIN base \ DOMAIN over : d[k] = base[k]

C38_SiblingStateIsolated ==
    UseOutputKeyMode =>
        /\ \A i \in Agents :
              /\ ScratchKey(i) \notin DOMAIN parent_state
              /\ \A j \in Agents \ {i} : ScratchKey(i) \notin DOMAIN sub_state[j]
        /\ \A j \in Agents : \A k \in DOMAIN sub_state[j] :
              sub_state[j][k] = ScratchValue => k \in BodyKeys(j)
        /\ \A k \in DOMAIN parent_state :
              \/ k \in DOMAIN InitialParentState /\ parent_state[k] = InitialParentState[k]
              \/ /\ SessionId \in DOMAIN cache
                 /\ k \in DOMAIN StateData
                 /\ parent_state[k] = StateData[k]

\* the first sub-agent wrote its output key into its state and then
\* committed its output, the second wrote a key of its own; the parent and
\* the state of a sub-agent admitted after the commit hold the committed
\* output, not what was written
C38_Witness ==
    /\ phase = "done"
    /\ UseOutputKeyMode
    /\ OwnKey(0) \in DOMAIN sub_state[0]
    /\ sub_state[0][OwnKey(0)] = ScratchValue
    /\ ScratchKey(1) \in DOMAIN sub_state[1]
    /\ OwnKey(0) \in DOMAIN StateData
    /\ parent_state[OwnKey(0)] = StateData[OwnKey(0)]
    /\ \E j \in Agents \ {0} :
          /\ OwnKey(0) \in DOMAIN sub_state[j]
          /\ sub_state[j][OwnKey(0)] = StateData[OwnKey(0)]

\* the stream of sub-agent i held an event with a non-empty text
HasText(i) == \E n \in DOMAIN events[i] : events[i][n].text # <<>>

CancelledUnsettled ==
    /\ yielded = <<>>
    /\ parent_state = InitialParentState
    /\ UseOutputKeyMode =>
          /\ WorkflowStateOf.status = "running"
          /\ \A i \in Agents : pc[i] = "cancelled" => ExecutionsOf(i) = {}

\* C40: a cancellation of run_async leaves the workflow in status running,
\* the parent session state unmerged and the sub-agents it stopped in flight
\* without execution record, and no step follows it: neither the settlement
\* nor a record of a stopped sub-agent.
C40_CancelledNeverSettles ==
    [][/\ phase # "cancelled"
       /\ phase' = "cancelled" => CancelledUnsettled']_vars

\* cancelled with one sub-agent returned, one stopped at its failed record
\* and one stopped while it waited for a slot
C40_Witness ==
    /\ phase = "cancelled"
    /\ UseOutputKeyMode
    /\ CancelledUnsettled
    /\ pc[0] = "returned"
    /\ pc[1] = "cancelled" /\ error[1] = BodyError
    /\ pc[2] = "cancelled" /\ sub_state[2] = EmptyDict
    /\ Len(Executions) = 1

====
